---- MODULE Spec2Model ----
(***************************************************************************)
(* A model of the zeplo-sdk transport client (src/src/client.ts) and of    *)
(* the next-pages adapter wrapped around it (src/unnamed/part_000).        *)
(*                                                                         *)
(* ZeploClient resolves a configuration once and returns two asynchronous  *)
(* operations: enqueue, which builds and issues one HTTP POST, and         *)
(* respondTo, which decodes an inbound delivery, runs the user handler and *)
(* produces a {status, body} result.  Each operation is modelled as a      *)
(* small process whose steps are the stretches of code between two awaits. *)
(***************************************************************************)
EXTENDS Integers, Sequences, FiniteSets, TLC

\* ------------------------------------------------------------------------
\* JavaScript values
\* ------------------------------------------------------------------------

\* An option or environment variable that is not given.
Undef == "<undefined>"

\* Boolean(x) of an optional string: undefined and "" are falsy.
Truthy(s) == s # Undef /\ s # ""

\* Values of type unknown (a raw body, a header value) carry their type.
JsStr(s) == [t |-> "string", v |-> s]
JsUndefined == [t |-> "undefined", v |-> ""]
JsArray(s) == [t |-> "array", v |-> s]
JsObject(s) == [t |-> "object", v |-> s]

\* s contains sub as a substring.
Contains(s, sub) ==
  \E i \in 1..(Len(s) - Len(sub) + 1) : SubSeq(s, i, i + Len(sub) - 1) = sub

StartsWith(s, p) == Len(s) >= Len(p) /\ SubSeq(s, 1, Len(p)) = p

EndsWith(s, p) == Len(s) >= Len(p) /\ SubSeq(s, Len(s) - Len(p) + 1, Len(s)) = p

\* [...].filter(Boolean).join(sep) of a sequence of optional strings.
RECURSIVE JoinTruthy(_, _)
JoinTruthy(parts, sep) ==
  IF parts = <<>> THEN ""
  ELSE LET rest == JoinTruthy(Tail(parts), sep)
       IN  IF ~Truthy(Head(parts)) THEN rest
           ELSE IF rest = "" THEN Head(parts)
           ELSE Head(parts) \o sep \o rest

\* ------------------------------------------------------------------------
\* Thrown values
\* ------------------------------------------------------------------------

\* A thrown value: an Error object (name, message), or any other value a
\* callback may throw: a string, a Symbol.
MkError(name, message) == [type |-> "Error", name |-> name, message |-> message]
ThrownString(s) == [type |-> "string", name |-> "", message |-> s]
ThrownSymbol(d) == [type |-> "symbol", name |-> "", message |-> d]
NoError == [type |-> "none", name |-> "", message |-> ""]

\* String(e): defined for every value.
StringOf(e) ==
  CASE e.type = "Error" ->
         IF e.name = "ZodError" THEN e.message
         ELSE IF e.message = "" THEN e.name
         ELSE e.name \o ": " \o e.message
    [] e.type = "string" -> e.message
    [] e.type = "symbol" -> "Symbol(" \o e.message \o ")"
    [] OTHER -> "undefined"

\* `${e}`: the template literal applies ToString, which throws a TypeError
\* for a Symbol.
TemplateThrows(e) == e.type = "symbol"

TemplateOf(e) == StringOf(e)

TemplateTypeError == MkError("TypeError", "Cannot convert a Symbol value to a string")

\* ------------------------------------------------------------------------
\* Payloads and the pluggable serializer and schema
\* ------------------------------------------------------------------------

\* The payload objects: {foo: "bar"}, {bar: 1} and an object that refers to
\* itself, which JSON.stringify refuses.
PFooBar == JsObject("{foo: 'bar'}")
PBarOne == JsObject("{bar: 1}")
PCircular == JsObject("circular")

\* The object {id: <id>}, for a string id.
IdObject(id) == JsObject("{id: '" \o id \o "'}")
\* The object {id: 5} and the empty object.
PIdNumber == JsObject("{id: 5}")
PEmpty == JsObject("{}")

IsIdObject(o) ==
  /\ o.t = "object"
  /\ StartsWith(o.v, "{id: '")
  /\ EndsWith(o.v, "'}")

IdOf(o) == SubSeq(o.v, Len("{id: '") + 1, Len(o.v) - Len("'}"))

\* The result of a call that may throw.
Ok(v) == [ok |-> TRUE, v |-> v, err |-> NoError]
Throw(e) == [ok |-> FALSE, v |-> JsUndefined, err |-> e]

JsonIdPrefix == "{\"id\":\""
JsonIdSuffix == "\"}"

\* JSON.stringify
JSONstringify(o) ==
  CASE o = PFooBar -> Ok("{\"foo\":\"bar\"}")
    [] o = PBarOne -> Ok("{\"bar\":1}")
    [] o = PIdNumber -> Ok("{\"id\":5}")
    [] o = PEmpty -> Ok("{}")
    [] IsIdObject(o) -> Ok(JsonIdPrefix \o IdOf(o) \o JsonIdSuffix)
    [] OTHER -> Throw(MkError("TypeError", "Converting circular structure to JSON"))

\* JSON.parse
JSONparse(s) ==
  CASE s = "{\"foo\":\"bar\"}" -> Ok(PFooBar)
    [] s = "{\"bar\":1}" -> Ok(PBarOne)
    [] s = "{\"id\":5}" -> Ok(PIdNumber)
    [] s = "{}" -> Ok(PEmpty)
    [] StartsWith(s, JsonIdPrefix) /\ EndsWith(s, JsonIdSuffix)
         /\ Len(s) >= Len(JsonIdPrefix) + Len(JsonIdSuffix) ->
         Ok(IdObject(SubSeq(s, Len(JsonIdPrefix) + 1, Len(s) - Len(JsonIdSuffix))))
    [] OTHER -> Throw(MkError("SyntaxError", "Unexpected token in JSON"))

LowerCase == "abcdefghijklmnopqrstuvwxyz"
UpperCase == "ABCDEFGHIJKLMNOPQRSTUVWXYZ"

MapChar(c, from, to) ==
  IF \E i \in 1..Len(from) : SubSeq(from, i, i) = c
  THEN LET i == CHOOSE j \in 1..Len(from) : SubSeq(from, j, j) = c
       IN  SubSeq(to, i, i)
  ELSE c

RECURSIVE MapString(_, _, _)
MapString(s, from, to) ==
  IF s = "" THEN ""
  ELSE MapChar(SubSeq(s, 1, 1), from, to) \o MapString(SubSeq(s, 2, Len(s)), from, to)

\* String.prototype.toUpperCase and toLowerCase
toUpperCase(s) == MapString(s, LowerCase, UpperCase)
toLowerCase(s) == MapString(s, UpperCase, LowerCase)

\* serializer.stringify: JSON by default, or the upper-casing serializer.
SerializerStringify(serializer, o) ==
  IF serializer = "JSON" THEN JSONstringify(o)
  ELSE LET r == JSONstringify(o)
       IN  IF r.ok THEN Ok(toUpperCase(r.v)) ELSE r

\* serializer.parse
SerializerParse(serializer, s) ==
  IF serializer = "JSON" THEN JSONparse(s) ELSE JSONparse(toLowerCase(s))

\* schema.parse: the identity cast by default, or a schema that demands a
\* key "bar" and throws Error("Mock Error") without it, or a schema that
\* throws a Symbol whatever the data.
SchemaParse(schema, data) ==
  IF schema = "identity" THEN Ok(data)
  ELSE IF schema = "throwsSymbol" THEN Throw(ThrownSymbol("x"))
  ELSE IF data = PBarOne THEN Ok(data)
  ELSE Throw(MkError("Error", "Mock Error"))

\* ------------------------------------------------------------------------
\* The encryptor
\* ------------------------------------------------------------------------

\* The characters of s in reverse order: the stand-in for the cipher, which
\* keeps no stretch of the plain text readable.
RECURSIVE Scramble(_)
Scramble(s) ==
  IF s = "" THEN "" ELSE Scramble(SubSeq(s, 2, Len(s))) \o SubSeq(s, 1, 1)

\* What encrypt produces under a secret: it names the secret it was made
\* with and carries the scrambled input.
CipherText(secret, input) == "enc:" \o secret \o ":" \o Scramble(input)

\* decrypt under a list of secrets: the first secret under which the input
\* was encrypted opens it.
RECURSIVE DecryptWith(_, _)
DecryptWith(secrets, input) ==
  IF secrets = <<>> THEN Throw(MkError("Error", "Could not decrypt: No matching secret."))
  ELSE LET prefix == CipherText(Head(secrets), "")
       IN  IF StartsWith(input, prefix)
           THEN Ok(Scramble(SubSeq(input, Len(prefix) + 1, Len(input))))
           ELSE DecryptWith(Tail(secrets), input)

\* An encryptor that hands the input back although a secret is configured.
Encrypt_PassThrough(c, input) == input

\* encryptor.encrypt: the identity without a secret.
Encrypt(c, input) ==
  IF ~Truthy(c.encryptionSecret) THEN input
  ELSE CipherText(c.encryptionSecret, input)

\* encryptor.decrypt: the identity without a secret, otherwise the current
\* secret first and then the old secrets in order.
Decrypt(c, input) ==
  IF ~Truthy(c.encryptionSecret) THEN Ok(input)
  ELSE DecryptWith(<<c.encryptionSecret>> \o c.oldSecrets, input)

\* ------------------------------------------------------------------------
\* Numbers, dates and the query string
\* ------------------------------------------------------------------------

Digits == "0123456789"

IsDigit(c) == \E i \in 1..Len(Digits) : SubSeq(Digits, i, i) = c

DigitValue(c) == (CHOOSE i \in 1..Len(Digits) : SubSeq(Digits, i, i) = c) - 1

\* `${ms / 1000}`: a count of milliseconds printed as seconds, the way
\* JavaScript prints a number (no trailing zeros, no point for an integer).
SecondsString(ms) ==
  LET whole == ToString(ms \div 1000)
      frac == ms % 1000
      d1 == ToString(frac \div 100)
      d2 == ToString((frac \div 10) % 10)
      d3 == ToString(frac % 10)
  IN  IF frac = 0 THEN whole
      ELSE IF frac % 100 = 0 THEN whole \o "." \o d1
      ELSE IF frac % 10 = 0 THEN whole \o "." \o d1 \o d2
      ELSE whole \o "." \o d1 \o d2 \o d3

\* CommonOptions.delay: undefined, a number of seconds, or a Date (its
\* valueOf() in milliseconds).
NoDelay == [t |-> "undefined", n |-> 0]
DelayNumber(n) == [t |-> "number", n |-> n]
DelayDate(ms) == [t |-> "Date", n |-> ms]

\* CommonOptions.retry: undefined, a number, or {count, backoff?}.
NoBackoff == [t |-> "undefined", approach |-> "", n |-> 0]
BackoffImmediate == [t |-> "string", approach |-> "immediate", n |-> 0]
BackoffObject(approach, n) == [t |-> "object", approach |-> approach, n |-> n]
NoRetry == [t |-> "undefined", count |-> 0, backoff |-> NoBackoff]
RetryNumber(n) == [t |-> "number", count |-> n, backoff |-> NoBackoff]
RetryObject(count, backoff) == [t |-> "object", count |-> count, backoff |-> backoff]

\* !delay and !retry: undefined and the number 0 are falsy, objects are not.
FalsyDelay(d) == d.t = "undefined" \/ (d.t = "number" /\ d.n = 0)

FalsyRetry(r) == r.t = "undefined" \/ (r.t = "number" /\ r.count = 0)

\* The _retry value of lines 177-189.
RetryString(retry) ==
  IF retry.t = "number" THEN ToString(retry.count)
  ELSE IF retry.backoff.t = "undefined" THEN ToString(retry.count)
  ELSE ToString(retry.count) \o "|" \o
       (IF retry.backoff.approach = "immediate" THEN "immediate"
        ELSE IF retry.backoff.approach = "fixed"
        THEN "fixed|" \o ToString(retry.backoff.n)
        ELSE "exponential|" \o ToString(retry.backoff.n))

\* The entries given to URLSearchParams, in order.
QueryParams(env, trace, delay, retry) ==
  <<<<"_env", env>>>>
  \o (IF ~Truthy(trace) THEN <<>> ELSE <<<<"_trace", trace>>>>)
  \o (IF FalsyDelay(delay) THEN <<>>
      ELSE IF delay.t = "number" THEN <<<<"_delay", ToString(delay.n)>>>>
      ELSE <<<<"_delay_until", ToString(delay.n)>>>>)
  \o (IF FalsyRetry(retry) THEN <<>> ELSE <<<<"_retry", RetryString(retry)>>>>)

\* application/x-www-form-urlencoded: of the characters that occur here,
\* only "|" is escaped.
RECURSIVE UrlEncode(_)
UrlEncode(s) ==
  IF s = "" THEN ""
  ELSE (IF SubSeq(s, 1, 1) = "|" THEN "%7C" ELSE SubSeq(s, 1, 1))
       \o UrlEncode(SubSeq(s, 2, Len(s)))

\* URLSearchParams.prototype.toString
RECURSIVE QueryString(_)
QueryString(params) ==
  IF params = <<>> THEN ""
  ELSE LET h == Head(params)[1] \o "=" \o UrlEncode(Head(params)[2])
       IN  IF Len(params) = 1 THEN h ELSE h \o "&" \o QueryString(Tail(params))

\* ------------------------------------------------------------------------
\* ZeploClient: the resolved configuration
\* ------------------------------------------------------------------------

\* A destructuring default: it applies when the option is undefined.
Default(option, fallback) == IF option = Undef THEN fallback ELSE option

\* a ?? b
Nullish(a, b) == IF a = Undef THEN b ELSE a

\* z.array(z.string()).parse(JSON.parse(ZEPLO_OLD_SECRETS))
ParseOldSecrets(text) ==
  CASE text = "[\"k0\"]" -> <<"k0">>
    [] text = "[\"k0\",\"k9\"]" -> <<"k0", "k9">>
    [] OTHER -> <<>>

\* Direct mode given the prefix of production mode.
ModeApiUrl_DirectRemote(mode) ==
  IF mode = "dev-server" THEN "http://localhost:4747" ELSE "https://zeplo.to"

\* Lines 57-61
ModeApiUrl(mode) ==
  IF mode = "direct" THEN ""
  ELSE IF mode = "dev-server" THEN "http://localhost:4747"
  ELSE "https://zeplo.to"

\* The environment variable taking precedence over the explicit option.
ResolveApiUrl_EnvFirst(o, e, mode) ==
  Nullish(e.ZEPLO_API_URL, Default(o.apiUrl, ModeApiUrl(mode)))

ResolveApiUrl(o, e, mode) == Default(o.apiUrl, Nullish(e.ZEPLO_API_URL, ModeApiUrl(mode)))

ResolveToken(o, e) == Default(o.token, e.ZEPLO_TOKEN)

ResolveBaseUrl(o, e) == Default(o.baseUrl, e.ZEPLO_BASE_URL)

\* The options of lines 43-62, resolved against process.env.
ZeploClient(o, e) ==
  LET mode == Default(o.mode, "production")
  IN  [ baseUrl |-> ResolveBaseUrl(o, e),
        delay |-> o.delay,
        encryptionSecret |-> Default(o.encryptionSecret, e.ZEPLO_ENCRYPTION_SECRET),
        env |-> Default(o.env, e.NODE_ENV),
        mode |-> mode,
        retry |-> o.retry,
        schema |-> Default(o.schema, "identity"),
        serializer |-> Default(o.serializer, "JSON"),
        token |-> ResolveToken(o, e),
        oldSecrets |-> IF o.oldSecrets.given THEN o.oldSecrets.list
                       ELSE IF ~Truthy(e.ZEPLO_OLD_SECRETS) THEN <<>>
                       ELSE ParseOldSecrets(e.ZEPLO_OLD_SECRETS),
        apiUrl |-> ResolveApiUrl(o, e, mode) ]

\* ------------------------------------------------------------------------
\* parseFloat and Date
\* ------------------------------------------------------------------------

\* The number of leading decimal digits of s.
RECURSIVE LeadingDigits(_)
LeadingDigits(s) ==
  IF s = "" \/ ~IsDigit(SubSeq(s, 1, 1)) THEN 0
  ELSE 1 + LeadingDigits(SubSeq(s, 2, Len(s)))

\* The value of a string of decimal digits.
RECURSIVE DigitsValue(_)
DigitsValue(s) ==
  IF s = "" THEN 0
  ELSE 10 * DigitsValue(SubSeq(s, 1, Len(s) - 1)) + DigitValue(SubSeq(s, Len(s), Len(s)))

InvalidDate == [valid |-> FALSE, ms |-> 0]
DateOf(ms) == [valid |-> TRUE, ms |-> ms]

\* The header read as milliseconds: the factor 1000 is missing.
DateFromSeconds_Millis(s) ==
  LET n == LeadingDigits(s)
  IN  IF n = 0 THEN InvalidDate ELSE DateOf(DigitsValue(SubSeq(s, 1, n)))

\* new Date(Number.parseFloat(s) * 1000): parseFloat reads the longest
\* decimal prefix (digits, then optionally a point and digits) and yields
\* NaN when there is none; the Date keeps whole milliseconds.
DateFromSeconds(s) ==
  LET n == LeadingDigits(s)
      rest == SubSeq(s, n + 1, Len(s))
      m == IF StartsWith(rest, ".") THEN LeadingDigits(SubSeq(rest, 2, Len(rest))) ELSE 0
      frac == SubSeq(rest, 2, 1 + (IF m > 3 THEN 3 ELSE m))
      scale == IF Len(frac) = 1 THEN 100 ELSE IF Len(frac) = 2 THEN 10 ELSE 1
  IN  IF n = 0 /\ m = 0 THEN InvalidDate
      ELSE DateOf(DigitsValue(SubSeq(s, 1, n)) * 1000
                  + (IF m = 0 THEN 0 ELSE DigitsValue(frac) * scale))

\* ------------------------------------------------------------------------
\* State
\* ------------------------------------------------------------------------

VARIABLES
  opts,     \* the options given to Queue / ZeploClient
  penv,     \* process.env when the queue is declared
  route,    \* the route given to Queue / ZeploClient
  cfg,      \* the configuration ZeploClient resolved from opts and penv
  wiring,   \* what fetch is: the remote service, or a loop back into the queue
  enq,      \* the enqueue call in progress (or the last one)
  rsp       \* the respondTo call in progress (or the last one)

vars == <<opts, penv, route, cfg, wiring, enq, rsp>>

\* The headers of a request: the three the client knows, and "hello", the
\* custom header of next-pages.test.ts, line 590.  Undef: not present.
NoHeaders == [XZeploToken |-> Undef, XZeploId |-> Undef, XZeploStart |-> Undef, hello |-> Undef]
NoResponse == [status |-> 0, text |-> ""]
NoResult == [status |-> 0, body |-> JsUndefined]

IdleEnq ==
  [ pc |-> "idle", payload |-> JsUndefined, trace |-> Undef, delay |-> NoDelay,
    retry |-> NoRetry, url |-> "", stringifiedPayload |-> "", params |-> <<>>,
    requestUrl |-> "", method |-> "", body |-> "", headers |-> NoHeaders,
    fetchCalls |-> 0, response |-> NoResponse, id |-> Undef, error |-> NoError,
    failed |-> "none", fetchError |-> NoError,
    given |-> [trace |-> Undef, delay |-> NoDelay, retry |-> NoRetry] ]

IdleRsp ==
  [ pc |-> "idle", caller |-> "none", body |-> JsUndefined,
    headers |-> [id |-> JsUndefined, start |-> JsUndefined],
    jobId |-> "", startHeader |-> "", handlerCalls |-> <<>>, logged |-> <<>>,
    stage |-> "headers", caught |-> NoError, result |-> NoResult,
    error |-> NoError, sent |-> NoResponse ]

\* ------------------------------------------------------------------------
\* respondTo
\* ------------------------------------------------------------------------

\* The values a handler may throw or reject with.
ThrownValues ==
  { MkError("Error", "Mock Error"), ThrownString("oops"), ThrownSymbol("x") }

ZodIssue(path) == MkError("ZodError", "[{\"code\":\"invalid_type\",\"path\":[\"" \o path \o "\"]}]")

\* The catch block of lines 241-249: console.error(error), then the result
\* {status: 500, body: `${error}`}.  The template literal is evaluated inside
\* the catch block, so what it throws leaves respondTo.
RespondToCatch(r, e) ==
  LET logged == [r EXCEPT !.logged = Append(@, e), !.caught = e]
  IN  IF TemplateThrows(e)
      THEN [logged EXCEPT !.pc = "threw", !.error = TemplateTypeError]
      ELSE [logged EXCEPT !.pc = "returned",
                          !.result = [status |-> 500, body |-> JsStr(TemplateOf(e))]]

\* A validation that demands a decimal number in x-zeplo-start.
RespondToBegin_NumericStart(body, headers, caller) ==
  LET r == [IdleRsp EXCEPT !.caller = caller, !.body = body, !.headers = headers]
  IN  IF headers.id.t # "string" THEN RespondToCatch(r, ZodIssue("x-zeplo-id"))
      ELSE IF headers.start.t # "string" \/ LeadingDigits(headers.start.v) = 0
      THEN RespondToCatch(r, ZodIssue("x-zeplo-start"))
      ELSE IF body.t # "string"
      THEN RespondToCatch([r EXCEPT !.stage = "body"], ZodIssue(""))
      ELSE [r EXCEPT !.pc = "decrypting", !.stage = "decrypt",
                     !.jobId = headers.id.v, !.startHeader = headers.start.v]

\* Lines 216-228, up to the await of encryptor.decrypt: the headers are
\* validated, then the body must be a string, then decryption starts.
RespondToBegin(body, headers, caller) ==
  LET r == [IdleRsp EXCEPT !.caller = caller, !.body = body, !.headers = headers]
  IN  IF headers.id.t # "string" THEN RespondToCatch(r, ZodIssue("x-zeplo-id"))
      ELSE IF headers.start.t # "string" THEN RespondToCatch(r, ZodIssue("x-zeplo-start"))
      ELSE IF body.t # "string"
      THEN RespondToCatch([r EXCEPT !.stage = "body"], ZodIssue(""))
      ELSE [r EXCEPT !.pc = "decrypting", !.stage = "decrypt",
                     !.jobId = headers.id.v, !.startHeader = headers.start.v]

\* The arguments the handler is invoked with.
HandlerCall(payload, jobId, start) == [payload |-> payload, jobId |-> jobId, start |-> start]

\* Lines 226-234 once decrypt has settled: serializer.parse, schema.parse,
\* then the handler is invoked; thrown is what the handler throws
\* synchronously (NoError: it returns, possibly a promise).
RespondToDecoded(c, r, thrown) ==
  LET plain == Decrypt(c, r.body.v)
      data == SerializerParse(c.serializer, plain.v)
      payload == SchemaParse(c.schema, data.v)
      invoked == [r EXCEPT !.stage = "handler",
                           !.handlerCalls = Append(@, HandlerCall(payload.v, r.jobId,
                                                     DateFromSeconds(r.startHeader)))]
  IN  IF ~plain.ok THEN RespondToCatch(r, plain.err)
      ELSE IF ~data.ok THEN RespondToCatch([r EXCEPT !.stage = "deserialize"], data.err)
      ELSE IF ~payload.ok THEN RespondToCatch([r EXCEPT !.stage = "schema"], payload.err)
      ELSE IF thrown # NoError THEN RespondToCatch(invoked, thrown)
      ELSE [invoked EXCEPT !.pc = "handling"]

\* RespondToSettled answering with the other header's value as the id.
RespondToSettled_WrongId(r, rejected) ==
  IF rejected # NoError THEN RespondToCatch(r, rejected)
  ELSE [r EXCEPT !.pc = "returned", !.stage = "done",
                 !.result = [status |-> 200, body |-> IdObject(r.startHeader)]]

\* Lines 226 and 236-240: the awaited handler settles; rejected is what it
\* rejects with (NoError: it completes).
RespondToSettled(r, rejected) ==
  IF rejected # NoError THEN RespondToCatch(r, rejected)
  ELSE [r EXCEPT !.pc = "returned", !.stage = "done",
                 !.result = [status |-> 200, body |-> IdObject(r.jobId)]]

\* An adapter that sends the body without JSON.stringify.
AdapterResponse_Raw(result) == [status |-> result.status, text |-> result.body.v]

\* The adapter of part_000, lines 21-27: res.status(status), then res.send of
\* the body, a string as it is and anything else as JSON.
AdapterResponse(result) ==
  [ status |-> result.status,
    text |-> IF result.body.t = "string" THEN result.body.v
             ELSE JSONstringify(result.body).v ]

\* ------------------------------------------------------------------------
\* enqueue
\* ------------------------------------------------------------------------

\* The route joined like the other segments.
Url_JoinAll(c, r) == JoinTruthy(<<c.apiUrl, c.baseUrl, r>>, "/")

\* Line 161
Url(c, r) == JoinTruthy(<<c.apiUrl, c.baseUrl>>, "/") \o "/" \o r

\* The token header sent in every mode.
RequestHeaders_TokenAlways(c, uuid, now) ==
  IF c.mode # "direct"
  THEN [NoHeaders EXCEPT !.XZeploToken = IF ~Truthy(c.token) THEN Undef ELSE c.token]
  ELSE [NoHeaders EXCEPT !.XZeploToken = IF ~Truthy(c.token) THEN Undef ELSE c.token,
                         !.XZeploId = uuid \o "-iow", !.XZeploStart = SecondsString(now)]

\* Lines 197-204; uuid is what v4() returns and now is Date.now().
RequestHeaders(c, uuid, now) ==
  IF c.mode # "direct"
  THEN [NoHeaders EXCEPT !.XZeploToken = IF ~Truthy(c.token) THEN Undef ELSE c.token]
  ELSE [NoHeaders EXCEPT !.XZeploId = uuid \o "-iow", !.XZeploStart = SecondsString(now)]

\* Lines 146-164: the defaults of the call options, the URL, the serialized
\* payload and the query; then encryption starts.
EnqueueBegin(c, r, payload, trace, delay, retry) ==
  LET d == IF delay.t = "undefined" THEN c.delay ELSE delay
      rt == IF retry.t = "undefined" THEN c.retry ELSE retry
      url == Url(c, r)
      str == SerializerStringify(c.serializer, payload)
      params == QueryParams(IF c.env = Undef THEN "undefined" ELSE c.env, trace, d, rt)
      call == [IdleEnq EXCEPT !.payload = payload, !.trace = trace, !.delay = d,
                              !.retry = rt, !.url = url,
                              !.given = [trace |-> trace, delay |-> delay, retry |-> retry]]
  IN  IF ~str.ok
      THEN [call EXCEPT !.pc = "rejected", !.error = str.err, !.failed = "stringify"]
      ELSE [call EXCEPT !.pc = "encrypting", !.stringifiedPayload = str.v,
                        !.params = params,
                        !.requestUrl = url \o "?" \o QueryString(params)]

\* EnqueueFetch issuing the request a second time.
EnqueueFetch_Twice(c, e, uuid, now) ==
  [e EXCEPT !.pc = "fetching", !.method = "POST",
            !.body = Encrypt(c, e.stringifiedPayload),
            !.headers = RequestHeaders(c, uuid, now),
            !.fetchCalls = @ + 2]

\* Lines 165-206: the request is complete and fetch is called, once.
EnqueueFetch(c, e, uuid, now) ==
  [e EXCEPT !.pc = "fetching", !.method = "POST",
            !.body = Encrypt(c, e.stringifiedPayload),
            !.headers = RequestHeaders(c, uuid, now),
            !.fetchCalls = @ + 1]

\* The rejection of fetch wrapped into an error of the client.
EnqueueFetchRejected_Wrapped(e, thrown) ==
  [e EXCEPT !.pc = "rejected", !.fetchError = thrown, !.failed = "fetch",
            !.error = MkError("Error", "Unexpected response while trying to enqueue \""
                                       \o e.stringifiedPayload \o "\" to " \o e.url \o ": "
                                       \o StringOf(thrown))]

\* Line 165: the awaited fetch rejects with thrown; nothing catches it, so
\* enqueue rejects with the same value.
EnqueueFetchRejected(e, thrown) ==
  [e EXCEPT !.pc = "rejected", !.fetchError = thrown, !.failed = "fetch",
            !.error = thrown]

\* The message built from the request body instead of the serialized payload.
UnexpectedResponse_Body(e) ==
  MkError("Error", "Unexpected response while trying to enqueue \""
                   \o e.body \o "\" to " \o e.url \o ": " \o e.response.text)

UnexpectedResponse(e) ==
  MkError("Error", "Unexpected response while trying to enqueue \""
                   \o e.stringifiedPayload \o "\" to " \o e.url \o ": " \o e.response.text)

\* An enqueue that resolves with the id of the job the queue handled last,
\* kept in a variable the calls share.
EnqueueSettle_SharedJob(e) ==
  LET json == JSONparse(e.response.text)
  IN  IF e.response.status >= 400
      THEN [e EXCEPT !.pc = "rejected", !.error = UnexpectedResponse(e),
                     !.failed = "status"]
      ELSE IF ~json.ok
      THEN [e EXCEPT !.pc = "rejected", !.error = json.err, !.failed = "json"]
      ELSE IF ~IsIdObject(json.v)
      THEN [e EXCEPT !.pc = "rejected", !.error = ZodIssue("id"), !.failed = "shape"]
      ELSE [e EXCEPT !.pc = "resolved",
                     !.id = IF rsp.jobId # "" THEN rsp.jobId ELSE IdOf(json.v)]

\* Lines 208-214
EnqueueSettle(e) ==
  LET json == JSONparse(e.response.text)
  IN  IF e.response.status >= 400
      THEN [e EXCEPT !.pc = "rejected", !.error = UnexpectedResponse(e),
                     !.failed = "status"]
      ELSE IF ~json.ok
      THEN [e EXCEPT !.pc = "rejected", !.error = json.err, !.failed = "json"]
      ELSE IF ~IsIdObject(json.v)
      THEN [e EXCEPT !.pc = "rejected", !.error = ZodIssue("id"), !.failed = "shape"]
      ELSE [e EXCEPT !.pc = "resolved", !.id = IdOf(json.v)]

\* ------------------------------------------------------------------------
\* Inputs
\* ------------------------------------------------------------------------

Payloads == { PFooBar, PBarOne, PCircular }

\* The call options {trace, delay, retry} of an enqueue call.
NoCallOptions == [trace |-> Undef, delay |-> NoDelay, retry |-> NoRetry]
SomeCallOptions == [trace |-> "foo", delay |-> DelayNumber(10), retry |-> RetryNumber(3)]

\* The calls of enqueue: every payload without options, one with options.
EnqueueCalls ==
  { [payload |-> p, options |-> NoCallOptions] : p \in Payloads }
  \cup { [payload |-> PFooBar, options |-> SomeCallOptions] }

\* The delays and retries of CommonOptions, lines 14 and 28-37: every shape,
\* with the number 0 and a count of 0 among them.
Delays == { NoDelay, DelayNumber(0), DelayNumber(10), DelayDate(0), DelayDate(2790000) }

Retries ==
  { NoRetry, RetryNumber(0), RetryNumber(3),
    RetryObject(0, NoBackoff), RetryObject(3, NoBackoff),
    RetryObject(3, BackoffImmediate), RetryObject(0, BackoffObject("immediate", 0)),
    RetryObject(3, BackoffObject("fixed", 1)), RetryObject(0, BackoffObject("exponential", 2)) }

\* The calls of enqueue with every delay and retry, with and without trace.
OptionCalls ==
  { [payload |-> PFooBar, options |-> [trace |-> t, delay |-> d, retry |-> r]] :
      t \in {Undef, "foo"}, d \in Delays, r \in Retries }

\* What v4() and Date.now() may return.
Uuids == { "foo", "1b9d6bcd" }
Nows == { 2790000, 1500 }

\* What the remote service may answer: every body with status 200, and the
\* statuses on both sides of 400 with a JSON and a text body.
Responses ==
  { [status |-> 200, text |-> t] : t \in { "{\"id\":\"foo\"}", "{\"id\":5}", "{}", "res.text" } }
  \cup { [status |-> st, text |-> t] : st \in {399, 400}, t \in { "{\"id\":\"foo\"}", "res.text" } }

\* What may be delivered to the route.
GoodHeaders == [id |-> JsStr("foo"), start |-> JsStr("2790")]
GoodBody == JsStr("{\"foo\":\"bar\"}")

DeliveredBodies ==
  { GoodBody, JsStr("{\"bar\":1}"), JsStr("not json"),
    JsStr(CipherText("k1", "{\"foo\":\"bar\"}")), JsStr(CipherText("k2", "{\"foo\":\"bar\"}")),
    PFooBar, JsUndefined }

DeliveredHeaders ==
  { GoodHeaders,
    [id |-> JsStr("bar"), start |-> JsStr("1970-01-01T00:32:50.000Z")],
    [id |-> JsStr("foo"), start |-> JsStr("1970-01-01T00:32:50.000Z")],
    [id |-> JsStr("foo"), start |-> JsStr("soon")],
    [id |-> JsStr("foo"), start |-> JsStr("")],
    [id |-> JsUndefined, start |-> JsStr("2790")],
    [id |-> JsStr("foo"), start |-> JsUndefined],
    [id |-> JsArray("foo,bar"), start |-> JsStr("2790")] }

\* The deliveries: every body under good headers, every header mapping with
\* a good body, and two requests whose headers and body are both bad.
Deliveries ==
  { [body |-> b, headers |-> GoodHeaders] : b \in DeliveredBodies }
  \cup { [body |-> GoodBody, headers |-> h] : h \in DeliveredHeaders }
  \cup { [body |-> JsStr(CipherText("k1", "{\"foo\":\"bar\"}")),
          headers |-> [id |-> JsStr("bar"), start |-> JsStr("1970-01-01T00:32:50.000Z")]],
         [body |-> JsUndefined, headers |-> [id |-> JsUndefined, start |-> JsStr("2790")]],
         [body |-> JsStr("not json"), headers |-> [id |-> JsStr("foo"), start |-> JsUndefined]] }

NoOptions ==
  [ apiUrl |-> Undef, baseUrl |-> Undef, delay |-> NoDelay, encryptionSecret |-> Undef,
    env |-> Undef, mode |-> Undef, retry |-> NoRetry, schema |-> Undef,
    serializer |-> Undef, token |-> Undef, oldSecrets |-> [given |-> FALSE, list |-> <<>>],
    headers |-> [hello |-> Undef] ]

TestEnv ==
  [ ZEPLO_TOKEN |-> Undef, ZEPLO_BASE_URL |-> Undef, ZEPLO_API_URL |-> Undef,
    ZEPLO_ENCRYPTION_SECRET |-> Undef, ZEPLO_OLD_SECRETS |-> Undef, NODE_ENV |-> "test" ]

\* ------------------------------------------------------------------------
\* Actions
\* ------------------------------------------------------------------------

EnqueueFree == enq.pc \in {"idle", "resolved", "rejected"}

RespondFree == rsp.pc \in {"idle", "sent", "threw"}

\* queue.enqueue(payload, options) is called.
Enqueue_Begin ==
  /\ EnqueueFree
  /\ \E call \in EnqueueCalls :
       enq' = EnqueueBegin(cfg, route, call.payload, call.options.trace,
                           call.options.delay, call.options.retry)
  /\ UNCHANGED <<opts, penv, route, cfg, wiring, rsp>>

\* queue.enqueue(payload, {trace, delay, retry}) is called.
Enqueue_BeginOptions ==
  /\ EnqueueFree
  /\ \E call \in OptionCalls :
       enq' = EnqueueBegin(cfg, route, call.payload, call.options.trace,
                           call.options.delay, call.options.retry)
  /\ UNCHANGED <<opts, penv, route, cfg, wiring, rsp>>

\* The headers of the request the looped-back fetch hands to the queue
\* (next-pages.test.ts, lines 461-471).
LoopbackHeaders(h) ==
  [ id |-> IF h.XZeploId = Undef THEN JsUndefined ELSE JsStr(h.XZeploId),
    start |-> IF h.XZeploStart = Undef THEN JsUndefined ELSE JsStr(h.XZeploStart) ]

\* encryptor.encrypt has resolved: the headers are built and fetch is
\* called.  A looped-back fetch calls the queue's handler at once, which
\* runs respondTo up to its first await.
Enqueue_Fetch ==
  /\ enq.pc = "encrypting"
  /\ \E uuid \in Uuids, now \in Nows :
       LET call == EnqueueFetch(cfg, enq, uuid, now)
       IN  /\ enq' = call
           /\ rsp' = IF wiring = "loopback"
                     THEN RespondToBegin(JsStr(call.body), LoopbackHeaders(call.headers), "fetch")
                     ELSE rsp
  /\ UNCHANGED <<opts, penv, route, cfg, wiring>>

\* encryptor.encrypt rejects: enqueue rejects before fetch is called.
Enqueue_EncryptFails ==
  /\ enq.pc = "encrypting"
  /\ Truthy(cfg.encryptionSecret)
  /\ enq' = [enq EXCEPT !.pc = "rejected", !.error = MkError("Error", "encrypt failed"),
                        !.failed = "encrypt"]
  /\ UNCHANGED <<opts, penv, route, cfg, wiring, rsp>>

\* The remote service answers the POST.
Service_Respond ==
  /\ wiring = "service"
  /\ enq.pc = "fetching"
  /\ \E response \in Responses :
       enq' = [enq EXCEPT !.pc = "responded", !.response = response]
  /\ UNCHANGED <<opts, penv, route, cfg, wiring, rsp>>

\* fetch rejects: the error leaves enqueue as it is.
Fetch_Fails ==
  /\ wiring = "service"
  /\ enq.pc = "fetching"
  /\ \E thrown \in ThrownValues :
       enq' = EnqueueFetchRejected(enq, thrown)
  /\ UNCHANGED <<opts, penv, route, cfg, wiring, rsp>>

\* The response is read and enqueue settles.
Enqueue_Settle ==
  /\ enq.pc = "responded"
  /\ enq' = EnqueueSettle(enq)
  /\ UNCHANGED <<opts, penv, route, cfg, wiring, rsp>>

\* The remote service delivers a job to the route: the adapter calls
\* respondTo with the request's body and headers.
Service_Deliver ==
  /\ wiring = "service"
  /\ RespondFree
  /\ \E d \in Deliveries :
       rsp' = RespondToBegin(d.body, d.headers, "service")
  /\ UNCHANGED <<opts, penv, route, cfg, wiring, enq>>

\* decrypt has settled; the payload is decoded and the handler invoked.
RespondTo_Decoded ==
  /\ rsp.pc = "decrypting"
  /\ \E thrown \in {NoError} \cup ThrownValues :
       rsp' = RespondToDecoded(cfg, rsp, thrown)
  /\ UNCHANGED <<opts, penv, route, cfg, wiring, enq>>

\* The promise the handler returned settles.
RespondTo_HandlerSettles ==
  /\ rsp.pc = "handling"
  /\ \E rejected \in {NoError} \cup ThrownValues :
       rsp' = RespondToSettled(rsp, rejected)
  /\ UNCHANGED <<opts, penv, route, cfg, wiring, enq>>

\* respondTo has returned: the adapter sets the status and sends the body.
Adapter_Send ==
  /\ rsp.pc = "returned"
  /\ rsp' = [rsp EXCEPT !.pc = "sent", !.sent = AdapterResponse(rsp.result)]
  /\ UNCHANGED <<opts, penv, route, cfg, wiring, enq>>

\* The looped-back fetch returns the response the adapter sent
\* (next-pages.test.ts, lines 447-459 and 473).
Loopback_Return ==
  /\ wiring = "loopback"
  /\ enq.pc = "fetching"
  /\ rsp.caller = "fetch" /\ rsp.pc = "sent"
  /\ enq' = [enq EXCEPT !.pc = "responded", !.response = rsp.sent]
  /\ UNCHANGED <<opts, penv, route, cfg, wiring, rsp>>

\* respondTo threw, so the adapter and the looped-back fetch reject.
Loopback_Reject ==
  /\ wiring = "loopback"
  /\ enq.pc = "fetching"
  /\ rsp.caller = "fetch" /\ rsp.pc = "threw"
  /\ enq' = EnqueueFetchRejected(enq, rsp.error)
  /\ UNCHANGED <<opts, penv, route, cfg, wiring, rsp>>

\* ------------------------------------------------------------------------
\* Specifications
\* ------------------------------------------------------------------------

Constructed ==
  /\ cfg = ZeploClient(opts, penv)
  /\ enq = IdleEnq
  /\ rsp = IdleRsp

\* Queues that differ in encryption, serializer and schema: in production
\* mode with fetch reaching the remote service, and in direct mode with
\* fetch looped back into the queue.
Init ==
  /\ \E w \in { <<Undef, "service">>, <<"direct", "loopback">> } :
       /\ wiring = w[2]
       /\ opts \in { [NoOptions EXCEPT !.mode = w[1], !.encryptionSecret = k,
                                       !.serializer = sr, !.schema = sc, !.token = "foo"] :
                     k \in {Undef, "k1"}, sr \in {Undef, "upper"},
                     sc \in {Undef, "requiresBar", "throwsSymbol"} }
  /\ penv = TestEnv
  /\ route = "route"
  /\ Constructed

Next ==
  \/ Enqueue_Begin
  \/ Enqueue_Fetch
  \/ Enqueue_EncryptFails
  \/ Service_Respond
  \/ Fetch_Fails
  \/ Enqueue_Settle
  \/ Service_Deliver
  \/ RespondTo_Decoded
  \/ RespondTo_HandlerSettles
  \/ Adapter_Send
  \/ Loopback_Return
  \/ Loopback_Reject

Spec == Init /\ [][Next]_vars

\* Every configuration of apiUrl, baseUrl, token and mode, given as options
\* or in the environment, with and without the option headers, and an empty
\* route; enqueue up to its fetch call.
InitConfig ==
  /\ opts \in { [NoOptions EXCEPT !.apiUrl = a, !.baseUrl = b, !.token = t, !.mode = m,
                                  !.headers = [hello |-> h]] :
                a \in {Undef, "", "https://foo.com"}, b \in {Undef, "", "foo.com"},
                t \in {Undef, "", "foo"}, m \in {Undef, "production", "dev-server", "direct"},
                h \in {Undef, "world"} }
  /\ penv \in { [TestEnv EXCEPT !.ZEPLO_API_URL = a, !.ZEPLO_BASE_URL = b, !.ZEPLO_TOKEN = t] :
                a \in {Undef, "", "https://bar.com"}, b \in {Undef, "bar.com"},
                t \in {Undef, "bar"} }
  /\ route \in {"route", ""}
  /\ wiring = "service"
  /\ Constructed

NextConfig ==
  \/ Enqueue_Begin
  \/ Enqueue_Fetch

SpecConfig == InitConfig /\ [][NextConfig]_vars

\* Queues declared with every default delay and retry; enqueue with every
\* call-time delay and retry, up to its fetch call.
InitQuery ==
  /\ opts \in { [NoOptions EXCEPT !.delay = d, !.retry = r, !.token = "foo"] :
                d \in Delays, r \in Retries }
  /\ penv = TestEnv
  /\ route = "route"
  /\ wiring = "service"
  /\ Constructed

NextQuery ==
  \/ Enqueue_BeginOptions
  \/ Enqueue_Fetch

SpecQuery == InitQuery /\ [][NextQuery]_vars

\* ------------------------------------------------------------------------
\* Properties of respondTo
\* ------------------------------------------------------------------------

RespondSettled == rsp.pc \in {"returned", "sent", "threw"}

RespondReturned == rsp.pc \in {"returned", "sent"}

\* C1: respondTo never rejects: whatever the body, the headers and the
\* handler do, the call ends by returning a result with status 200 or 500.
C1_NeverRejects ==
  /\ rsp.pc # "threw"
  /\ RespondReturned => rsp.result.status \in {200, 500}

\* respondTo rejects only when the value it caught cannot be converted by
\* the template literal; with every other value C1 holds.
C1_RejectsOnlyOnSymbol ==
  /\ rsp.pc = "threw" => rsp.caught.type = "symbol" /\ rsp.logged = <<rsp.caught>>
  /\ RespondReturned => rsp.result.status \in {200, 500}

\* C2: whenever a stage of respondTo fails with error E, respondTo logs E
\* exactly once and returns {status: 500, body: String(E)}; and it returns
\* status 500 in no other case.
C2_FailureIs500 ==
  /\ (RespondSettled /\ rsp.caught # NoError) =>
       /\ rsp.logged = <<rsp.caught>>
       /\ RespondReturned
       /\ rsp.result = [status |-> 500, body |-> JsStr(StringOf(rsp.caught))]
  /\ (RespondReturned /\ rsp.result.status = 500) => rsp.caught # NoError

\* C2 for the values a template literal converts.
C2_FailureIs500UnlessSymbol ==
  /\ (RespondSettled /\ rsp.caught # NoError /\ rsp.caught.type # "symbol") =>
       /\ rsp.logged = <<rsp.caught>>
       /\ RespondReturned
       /\ rsp.result = [status |-> 500, body |-> JsStr(StringOf(rsp.caught))]
  /\ (RespondReturned /\ rsp.result.status = 500) => rsp.caught # NoError
  /\ (RespondSettled /\ rsp.caught = NoError) => rsp.logged = <<>>

\* The body decodes under the configuration: it is a string that decrypts,
\* deserializes and passes the schema.
Decodes(c, body) ==
  /\ body.t = "string"
  /\ Decrypt(c, body.v).ok
  /\ SerializerParse(c.serializer, Decrypt(c, body.v).v).ok
  /\ SchemaParse(c.schema, SerializerParse(c.serializer, Decrypt(c, body.v).v).v).ok

Decoded(c, body) ==
  SchemaParse(c.schema, SerializerParse(c.serializer, Decrypt(c, body.v).v).v).v

\* C3: with string x-zeplo-id and x-zeplo-start headers, a body that
\* decodes and a handler that completes, respondTo has invoked the handler
\* exactly once, with the decoded payload and {jobId, start} of this call's
\* headers, and returns {status: 200, body: {id: jobId}}.
C3_Success ==
  (/\ RespondReturned
   /\ rsp.headers.id.t = "string" /\ rsp.headers.start.t = "string"
   /\ Decodes(cfg, rsp.body)
   /\ rsp.caught = NoError) =>
    /\ rsp.handlerCalls = << HandlerCall(Decoded(cfg, rsp.body), rsp.headers.id.v,
                                         DateFromSeconds(rsp.headers.start.v)) >>
    /\ rsp.result = [status |-> 200, body |-> IdObject(rsp.headers.id.v)]

\* An encrypted delivery with the second job id was handled and answered.
C3_Witness ==
  /\ rsp.pc = "sent"
  /\ rsp.result.status = 200
  /\ rsp.headers.id = JsStr("bar")
  /\ Truthy(cfg.encryptionSecret)
  /\ Len(rsp.handlerCalls) = 1

\* ------------------------------------------------------------------------
\* Properties of enqueue
\* ------------------------------------------------------------------------

EnqueueSettled == enq.pc \in {"resolved", "rejected"}

\* C4: every invocation of enqueue performs exactly one outbound HTTP call,
\* whatever its outcome, a serializer or encryptor failure included.
C4_ExactlyOneCall == EnqueueSettled => enq.fetchCalls = 1

\* C4, amended: enqueue never calls fetch more than once; a settled call has
\* called it exactly once, except when serializer.stringify or
\* encryptor.encrypt failed, and then it has not called it at all.
C4_AtMostOneCall ==
  /\ enq.fetchCalls <= 1
  /\ EnqueueSettled =>
       (enq.fetchCalls = 0 <=>
          \/ ~SerializerStringify(cfg.serializer, enq.payload).ok
          \/ enq.failed = "encrypt")
  /\ enq.pc \in {"fetching", "responded"} => enq.fetchCalls = 1

\* enqueue rejected a response of status 400 after its single call.
C4_Witness ==
  /\ enq.pc = "rejected"
  /\ enq.response.status = 400
  /\ enq.fetchCalls = 1

\* C5: when the POST is answered with a status >= 400, enqueue rejects with
\* an error whose message contains the payload as the serializer produced
\* it, the target URL and the text of the response, and gives no id.
C5_TransportError ==
  (EnqueueSettled /\ enq.response.status >= 400) =>
    /\ enq.pc = "rejected"
    /\ enq.id = Undef
    /\ enq.error.type = "Error"
    /\ Contains(enq.error.message, SerializerStringify(cfg.serializer, enq.payload).v)
    /\ Contains(enq.error.message, Url(cfg, route))
    /\ Contains(enq.error.message, enq.response.text)

\* A status 400 answer to an encrypted, upper-cased payload was rejected.
C5_Witness ==
  /\ enq.pc = "rejected"
  /\ enq.response = [status |-> 400, text |-> "res.text"]
  /\ Truthy(cfg.encryptionSecret)
  /\ cfg.serializer = "upper"

\* C6: the body of the POST is serializer.stringify(P) without an encryption
\* secret and its encryption, never the plain text, with one; and a response
\* of status < 400 resolves enqueue with the id of its JSON body when that
\* has a string id, and otherwise rejects it with a validation error.
C6_BodyAndId ==
  LET plain == SerializerStringify(cfg.serializer, enq.payload).v
      json == JSONparse(enq.response.text)
  IN  /\ enq.fetchCalls > 0 =>
           /\ enq.method = "POST"
           /\ IF ~Truthy(cfg.encryptionSecret) THEN enq.body = plain
              ELSE /\ enq.body = CipherText(cfg.encryptionSecret, plain)
                   /\ ~Contains(enq.body, plain)
                   /\ Decrypt(cfg, enq.body) = Ok(plain)
      /\ (EnqueueSettled /\ enq.response.status \in 1..399) =>
           IF json.ok /\ IsIdObject(json.v)
           THEN enq.pc = "resolved" /\ enq.id = IdOf(json.v)
           ELSE /\ enq.pc = "rejected" /\ enq.id = Undef
                /\ json.ok => enq.error.name = "ZodError"
                /\ ~json.ok => enq.error.name = "SyntaxError"

\* An encrypted payload was posted and the call resolved with the service's id.
C6_Witness ==
  /\ enq.pc = "resolved"
  /\ enq.id = "foo"
  /\ Truthy(cfg.encryptionSecret)
  /\ enq.response.status = 399

HasToken == enq.headers.XZeploToken # Undef

HasIdentity == enq.headers.XZeploId # Undef /\ enq.headers.XZeploStart # Undef

\* C7: the headers of the request hold exactly one of the token header and
\* the direct-mode identity headers: never both and never neither.
C7_ExactlyOne == enq.fetchCalls > 0 => (HasToken /\ ~HasIdentity) \/ (~HasToken /\ HasIdentity)

\* C7, amended: the headers hold the token header exactly when the mode is
\* not direct and a non-empty token is configured, and the identity headers
\* X-Zeplo-Id and X-Zeplo-Start (both or none) exactly when the mode is
\* direct; so never both, and neither when the mode is not direct and no
\* token is configured.
C7_AtMostOne ==
  enq.fetchCalls > 0 =>
    /\ HasToken <=> (cfg.mode # "direct" /\ Truthy(cfg.token))
    /\ HasToken => enq.headers.XZeploToken = cfg.token
    /\ HasIdentity <=> cfg.mode = "direct"
    /\ (enq.headers.XZeploId # Undef) <=> (enq.headers.XZeploStart # Undef)
    /\ ~(HasToken /\ HasIdentity)
    /\ (cfg.mode # "direct" /\ ~Truthy(cfg.token)) => enq.headers = NoHeaders

\* A request of the dev-server mode without a token went out with no header.
C7_Witness ==
  /\ enq.fetchCalls = 1
  /\ cfg.mode = "dev-server"
  /\ cfg.token = Undef
  /\ enq.headers = NoHeaders

\* C8: the target URL is the non-empty members of [apiUrl, baseUrl, route],
\* in that order, joined with a single "/".
C8_JoinNonEmpty ==
  enq.pc # "idle" => enq.url = JoinTruthy(<<cfg.apiUrl, cfg.baseUrl, route>>, "/")

\* C8, amended: the target URL is the non-empty members of [apiUrl, baseUrl]
\* joined with "/", then a "/", then the route: an empty apiUrl or baseUrl
\* contributes neither a segment nor a separator, but the "/" before the
\* route is always there, also when both are empty ("/route") and when the
\* route is empty (a trailing "/").
C8_Url ==
  LET a == cfg.apiUrl
      b == cfg.baseUrl
      prefix == CASE Truthy(a) /\ Truthy(b) -> a \o "/" \o b
                  [] Truthy(a) /\ ~Truthy(b) -> a
                  [] ~Truthy(a) /\ Truthy(b) -> b
                  [] OTHER -> ""
  IN  /\ enq.pc # "idle" => enq.url = prefix \o "/" \o route
      /\ enq.fetchCalls > 0 => StartsWith(enq.requestUrl, prefix \o "/" \o route \o "?_env=")

\* A direct-mode request without a baseUrl went to "/route".
C8_Witness ==
  /\ enq.fetchCalls = 1
  /\ cfg.mode = "direct"
  /\ enq.url = "/route"
  /\ enq.requestUrl = "/route?_env=test"

\* C9: each of token, baseUrl and apiUrl used by enqueue is the explicit
\* option when given, otherwise the environment variable when set, otherwise
\* the built-in default; and the built-in default of apiUrl follows from the
\* mode alone.
C9_Precedence ==
  LET Pick(explicit, variable, builtin) ==
        IF explicit # Undef THEN explicit
        ELSE IF variable # Undef THEN variable
        ELSE builtin
      mode == IF opts.mode = Undef THEN "production" ELSE opts.mode
      token == Pick(opts.token, penv.ZEPLO_TOKEN, Undef)
      baseUrl == Pick(opts.baseUrl, penv.ZEPLO_BASE_URL, Undef)
      apiUrl == Pick(opts.apiUrl, penv.ZEPLO_API_URL,
                     CASE mode = "direct" -> ""
                       [] mode = "dev-server" -> "http://localhost:4747"
                       [] OTHER -> "https://zeplo.to")
      segments == IF Truthy(apiUrl) /\ Truthy(baseUrl) THEN apiUrl \o "/" \o baseUrl
                  ELSE IF Truthy(apiUrl) THEN apiUrl
                  ELSE IF Truthy(baseUrl) THEN baseUrl
                  ELSE ""
  IN  enq.fetchCalls > 0 =>
        /\ enq.requestUrl = segments \o "/" \o route \o "?" \o QueryString(enq.params)
        /\ mode # "direct" =>
             enq.headers.XZeploToken = (IF Truthy(token) THEN token ELSE Undef)

\* With nothing given but the mode, the environment decided the token and
\* the baseUrl, and the mode the apiUrl.
C9_Witness ==
  /\ enq.fetchCalls = 1
  /\ opts = [NoOptions EXCEPT !.mode = "dev-server"]
  /\ penv.ZEPLO_API_URL = Undef
  /\ enq.requestUrl = "http://localhost:4747/bar.com/route?_env=test"
  /\ enq.headers.XZeploToken = "bar"

\* fetch is looped back into the queue of a direct-mode client.
DirectLoop == wiring = "loopback" /\ cfg.mode = "direct"

\* C10: in direct mode with fetch looped back into the queue, the nested
\* delivery is over (the handler invoked and completed, the response sent)
\* before enqueue settles, and enqueue resolves with the X-Zeplo-Id it
\* generated for this call, <uuid>-iow.
C10_NestedDelivery ==
  DirectLoop =>
    /\ (enq.pc \in {"responded", "resolved", "rejected"} /\ enq.fetchCalls = 1) =>
         /\ rsp.caller = "fetch"
         /\ rsp.pc \in {"sent", "threw"}
         /\ rsp.body = JsStr(enq.body)
         /\ rsp.headers.id = JsStr(enq.headers.XZeploId)
    /\ enq.pc = "resolved" =>
         /\ Len(rsp.handlerCalls) = 1
         /\ rsp.handlerCalls[1].jobId = enq.headers.XZeploId
         /\ rsp.stage = "done"
         /\ rsp.sent.status = 200
         /\ enq.id = enq.headers.XZeploId
         /\ \E uuid \in Uuids : enq.id = uuid \o "-iow"
    /\ (EnqueueSettled /\ enq.fetchCalls = 1 /\ rsp.pc = "sent" /\ rsp.result.status = 200) =>
         enq.pc = "resolved"

\* A looped-back enqueue resolved with the id it had generated.
C10_Witness ==
  /\ DirectLoop
  /\ enq.pc = "resolved"
  /\ enq.id = "1b9d6bcd-iow"
  /\ rsp.pc = "sent"

\* ------------------------------------------------------------------------
\* Properties of the request: direct mode, retry and delay
\* ------------------------------------------------------------------------

\* C11: in direct mode the requested URL never carries a host or apiUrl
\* prefix, whatever the configuration (ZEPLO_API_URL or ZEPLO_BASE_URL set in
\* the environment included): it is the path of the route and the query.
C11_NoPrefix ==
  (cfg.mode = "direct" /\ enq.fetchCalls > 0) =>
    enq.requestUrl = "/" \o route \o "?" \o QueryString(enq.params)

\* C11, amended: in direct mode the requested URL is the path of the route
\* and the query when no apiUrl and no baseUrl is configured, by option or
\* in the environment; a non-empty apiUrl from the option or, without the
\* option, from ZEPLO_API_URL still starts the URL in direct mode, and so
\* does a non-empty baseUrl when the apiUrl is empty.
C11_NoPrefixByDefault ==
  LET apiGiven == opts.apiUrl # Undef \/ penv.ZEPLO_API_URL # Undef
      api == IF opts.apiUrl # Undef THEN opts.apiUrl ELSE penv.ZEPLO_API_URL
      base == IF opts.baseUrl # Undef THEN opts.baseUrl ELSE penv.ZEPLO_BASE_URL
  IN  (cfg.mode = "direct" /\ enq.fetchCalls > 0) =>
        /\ ((~apiGiven \/ api = "") /\ ~Truthy(base)) =>
             enq.requestUrl = "/" \o route \o "?" \o QueryString(enq.params)
        /\ (apiGiven /\ api # "") => StartsWith(enq.requestUrl, api \o "/")
        /\ ((~apiGiven \/ api = "") /\ Truthy(base)) =>
             StartsWith(enq.requestUrl, base \o "/" \o route \o "?")

\* A direct-mode request with nothing but the mode configured went to the
\* path of the route.
C11_Witness ==
  /\ enq.fetchCalls = 1
  /\ opts = [NoOptions EXCEPT !.mode = "direct"]
  /\ penv = TestEnv
  /\ route = "route"
  /\ enq.requestUrl = "/route?_env=test"
  /\ enq.headers.XZeploId # Undef

\* The query of the request holds the parameter / the parameter with a value.
HasParam(name) == \E i \in DOMAIN enq.params : enq.params[i][1] = name

HasParamValue(name, value) ==
  /\ \E i \in DOMAIN enq.params : enq.params[i] = <<name, value>>
  /\ \A i \in DOMAIN enq.params : enq.params[i][1] = name => enq.params[i][2] = value
  /\ Contains(enq.requestUrl, "&" \o name \o "=" \o UrlEncode(value))

\* The retry and the delay in effect: the one of the call when given,
\* otherwise the one of the declaration.
EffectiveRetry == IF enq.given.retry.t # "undefined" THEN enq.given.retry ELSE opts.retry

EffectiveDelay == IF enq.given.delay.t # "undefined" THEN enq.given.delay ELSE opts.delay

\* The pipe-delimited form of a retry.
SerializedRetry(r) ==
  CASE r.t = "number" -> ToString(r.count)
    [] r.t = "object" /\ r.backoff.t = "undefined" -> ToString(r.count)
    [] r.t = "object" /\ r.backoff.t = "string" -> ToString(r.count) \o "|immediate"
    [] r.t = "object" /\ r.backoff.t = "object" /\ r.backoff.approach = "immediate" ->
         ToString(r.count) \o "|immediate"
    [] r.t = "object" /\ r.backoff.t = "object" /\ r.backoff.approach = "fixed" ->
         ToString(r.count) \o "|fixed|" \o ToString(r.backoff.n)
    [] r.t = "object" /\ r.backoff.t = "object" /\ r.backoff.approach = "exponential" ->
         ToString(r.count) \o "|exponential|" \o ToString(r.backoff.n)

\* C12: the query holds _retry exactly when a retry is provided, at call
\* time or as the default of the declaration, and its value is the
\* pipe-delimited form of the retry, for every count, 0 included.
C12_RetryParam ==
  enq.fetchCalls > 0 =>
    /\ HasParam("_retry") <=> EffectiveRetry.t # "undefined"
    /\ EffectiveRetry.t # "undefined" => HasParamValue("_retry", SerializedRetry(EffectiveRetry))

\* C12 holds for every retry but the bare number 0, for which the query
\* holds no _retry at all.
C12_RetryParamUnlessZero ==
  enq.fetchCalls > 0 =>
    IF EffectiveRetry.t = "undefined" \/ EffectiveRetry = RetryNumber(0)
    THEN ~HasParam("_retry") /\ ~Contains(enq.requestUrl, "_retry")
    ELSE HasParamValue("_retry", SerializedRetry(EffectiveRetry))

\* A call-time retry of 0 replaced the retry of the declaration and the
\* request went out without _retry.
C12_Witness ==
  /\ enq.fetchCalls = 1
  /\ enq.given.retry = RetryNumber(0)
  /\ opts.retry = RetryNumber(3)
  /\ enq.requestUrl = "https://zeplo.to/route?_env=test"

\* C13: with d the delay in effect, the query holds _delay=<d> exactly when
\* d is a number (0 included), _delay_until=<epoch milliseconds of d>
\* exactly when d is a point in time, neither when d is absent, and never
\* both.
C13_DelayParam ==
  enq.fetchCalls > 0 =>
    /\ HasParam("_delay") <=> EffectiveDelay.t = "number"
    /\ EffectiveDelay.t = "number" => HasParamValue("_delay", ToString(EffectiveDelay.n))
    /\ HasParam("_delay_until") <=> EffectiveDelay.t = "Date"
    /\ EffectiveDelay.t = "Date" => HasParamValue("_delay_until", ToString(EffectiveDelay.n))
    /\ ~(HasParam("_delay") /\ HasParam("_delay_until"))

\* C13 holds for every delay but the number 0, for which the query holds
\* neither parameter.
C13_DelayParamUnlessZero ==
  enq.fetchCalls > 0 =>
    /\ HasParam("_delay") <=> (EffectiveDelay.t = "number" /\ EffectiveDelay.n # 0)
    /\ HasParam("_delay") => HasParamValue("_delay", ToString(EffectiveDelay.n))
    /\ HasParam("_delay_until") <=> EffectiveDelay.t = "Date"
    /\ EffectiveDelay.t = "Date" => HasParamValue("_delay_until", ToString(EffectiveDelay.n))
    /\ ~(HasParam("_delay") /\ HasParam("_delay_until"))

\* A call-time delay of 0 replaced the delay of the declaration and the
\* request went out without _delay.
C13_Witness ==
  /\ enq.fetchCalls = 1
  /\ opts.delay = DelayNumber(10)
  /\ enq.given.delay = DelayNumber(0)
  /\ enq.given.trace = "foo"
  /\ enq.requestUrl = "https://zeplo.to/route?_env=test&_trace=foo"
\* ------------------------------------------------------------------------
\* Properties of interleaved calls
\* ------------------------------------------------------------------------

\* What a respondTo call answers, by its own headers and what it caught.
OwnRespondResult ==
  \/ /\ rsp.result = [status |-> 200, body |-> IdObject(rsp.headers.id.v)]
     /\ rsp.caught = NoError
  \/ /\ rsp.result = [status |-> 500, body |-> JsStr(StringOf(rsp.caught))]
     /\ rsp.caught # NoError

\* What an enqueue call asks and answers, by its own payload, options and
\* response.
OwnEnqueueResult ==
  /\ enq.fetchCalls > 0 =>
       /\ enq.body = Encrypt(cfg, SerializerStringify(cfg.serializer, enq.payload).v)
       /\ enq.requestUrl = Url(cfg, route) \o "?"
            \o QueryString(QueryParams(cfg.env, enq.given.trace, EffectiveDelay, EffectiveRetry))
  /\ enq.pc = "resolved" => enq.id = IdOf(JSONparse(enq.response.text).v)
  /\ (enq.pc = "rejected" /\ enq.failed = "status") =>
       /\ enq.response.status >= 400
       /\ EndsWith(enq.error.message, ": " \o enq.response.text)

\* C15: enqueue and respondTo calls on one queue interleave without
\* interfering: no step modifies the configuration they share, a step of
\* one call leaves the other call as it is, and each call's request and
\* result follow from its own inputs.
C15_NoInterference ==
  /\ [][ /\ cfg' = cfg /\ opts' = opts /\ penv' = penv /\ route' = route
         /\ wiring = "service" => (enq' = enq \/ rsp' = rsp) ]_vars
  /\ [](cfg = ZeploClient(opts, penv))
  /\ [](RespondReturned => OwnRespondResult)
  /\ []OwnEnqueueResult

\* An enqueue call and a respondTo call for another job are both under way.
C15_Witness ==
  /\ wiring = "service"
  /\ enq.pc = "resolved" /\ enq.id = "foo"
  /\ rsp.pc = "handling" /\ rsp.jobId = "bar"
  /\ enq.payload = PBarOne
  /\ rsp.handlerCalls[1].payload = PFooBar

\* ------------------------------------------------------------------------
\* Properties of the delivery: start, headers, errors and stages
\* ------------------------------------------------------------------------

\* The headers {x-zeplo-id: "foo", x-zeplo-start: "1970-01-01T00:32:50.000Z"}.
IsoHeaders == [id |-> JsStr("foo"), start |-> JsStr("1970-01-01T00:32:50.000Z")]

\* The instant parseFloat(s) seconds after the epoch, for the values of
\* x-zeplo-start that occur: parseFloat reads the leading decimal number.
InstantOf(s) ==
  CASE s = "2790" -> DateOf(2790000)
    [] s = "1.5" -> DateOf(1500)
    [] s = "1970-01-01T00:32:50.000Z" -> DateOf(1970000)
    [] s = "soon" -> InvalidDate
    [] s = "" -> InvalidDate

\* C16: the handler is passed the instant parseFloat(x-zeplo-start) seconds
\* after the epoch, and for the headers {x-zeplo-id: "foo", x-zeplo-start:
\* "1970-01-01T00:32:50.000Z"} it is invoked with {jobId: "foo", start:
\* Date(2790000)}, 2790 seconds after the epoch.
C16_Start2790 ==
  /\ Len(rsp.handlerCalls) > 0 =>
       /\ rsp.handlerCalls[1].jobId = rsp.headers.id.v
       /\ rsp.handlerCalls[1].start = InstantOf(rsp.headers.start.v)
  /\ (rsp.headers = IsoHeaders /\ Len(rsp.handlerCalls) > 0) =>
       /\ rsp.handlerCalls[1].jobId = "foo"
       /\ rsp.handlerCalls[1].start = DateOf(2790000)

\* C16, amended: the handler is passed the instant parseFloat(x-zeplo-start)
\* seconds after the epoch, and for the headers {x-zeplo-id: "foo",
\* x-zeplo-start: "1970-01-01T00:32:50.000Z"} it is invoked with {jobId:
\* "foo", start: Date(1970000)}, 1970 seconds after the epoch: parseFloat
\* reads the leading 1970 of the text, and that instant is 00:32:50.
C16_Start1970 ==
  /\ Len(rsp.handlerCalls) > 0 =>
       /\ rsp.handlerCalls[1].jobId = rsp.headers.id.v
       /\ rsp.handlerCalls[1].start = InstantOf(rsp.headers.start.v)
  /\ (rsp.headers = IsoHeaders /\ Len(rsp.handlerCalls) > 0) =>
       /\ rsp.handlerCalls[1].jobId = "foo"
       /\ rsp.handlerCalls[1].start = DateOf(1970000)

\* The delivery with the headers of the example was handled and answered.
C16_Witness ==
  /\ rsp.headers = IsoHeaders
  /\ rsp.handlerCalls = << HandlerCall(PFooBar, "foo", DateOf(1970000)) >>
  /\ rsp.pc = "sent"
  /\ rsp.sent = [status |-> 200, text |-> "{\"id\":\"foo\"}"]

\* C17: the custom headers given in the options of the declaration
\* (options.headers) are among the headers of every request enqueue issues,
\* alongside the token header.
C17_CustomHeaders ==
  enq.fetchCalls > 0 =>
    /\ enq.headers.hello = opts.headers.hello
    /\ (cfg.mode # "direct" /\ Truthy(cfg.token)) => enq.headers.XZeploToken = cfg.token

\* The options of the declaration are without effect on the headers sent.
C17_OptionHeadersIgnored ==
  enq.fetchCalls > 0 =>
    /\ enq.headers.hello = Undef
    /\ (cfg.mode # "direct" /\ Truthy(cfg.token)) => enq.headers.XZeploToken = cfg.token

\* A queue declared with {headers: {hello: "world"}} and ZEPLO_TOKEN=bar sent
\* a request with the token header only.
C17_Witness ==
  /\ enq.fetchCalls = 1
  /\ opts = [NoOptions EXCEPT !.headers = [hello |-> "world"]]
  /\ penv = [TestEnv EXCEPT !.ZEPLO_TOKEN = "bar"]
  /\ enq.headers = [NoHeaders EXCEPT !.XZeploToken = "bar"]

\* C18: in direct mode with fetch looped back into the queue, an error of
\* the job reaches the caller of enqueue: when the handler throws or rejects,
\* or an earlier stage of the delivery fails, enqueue rejects instead of
\* resolving with an id, and the message of the rejection contains the
\* string form of the original error.
C18_ErrorsThrown ==
  (DirectLoop /\ EnqueueSettled /\ enq.fetchCalls = 1 /\ rsp.caught # NoError) =>
    /\ enq.pc = "rejected"
    /\ enq.id = Undef
    /\ Contains(enq.error.message, StringOf(rsp.caught))

\* C18 holds for every error but a Symbol, for which enqueue rejects with
\* the TypeError of the template literal, which does not name the Symbol.
C18_ErrorsThrownUnlessSymbol ==
  (DirectLoop /\ EnqueueSettled /\ enq.fetchCalls = 1 /\ rsp.caught # NoError) =>
    /\ enq.pc = "rejected"
    /\ enq.id = Undef
    /\ IF rsp.caught.type = "symbol"
       THEN enq.error = TemplateTypeError /\ ~Contains(enq.error.message, StringOf(rsp.caught))
       ELSE /\ enq.response = [status |-> 500, text |-> StringOf(rsp.caught)]
            /\ EndsWith(enq.error.message, ": " \o StringOf(rsp.caught))

\* The handler of a looped-back job threw a Symbol and enqueue rejected with
\* the TypeError.
C18_Witness ==
  /\ DirectLoop
  /\ rsp.caught = ThrownSymbol("x")
  /\ rsp.stage = "handler"
  /\ enq.pc = "rejected"
  /\ enq.error = TemplateTypeError

\* C19: when the HTTP call itself fails, enqueue rejects with that same
\* error, unchanged, and enqueue neither invokes the handler nor produces a
\* delivery response: the handler is invoked only by a step of a respondTo
\* call.
C19_NetworkError ==
  /\ [](enq.failed = "fetch" =>
          /\ enq.pc = "rejected"
          /\ enq.error = enq.fetchError
          /\ enq.fetchError # NoError
          /\ enq.id = Undef
          /\ enq.response = NoResponse)
  /\ [](wiring = "service" => rsp.caller # "fetch")
  /\ [][ /\ (enq'.failed = "fetch" /\ enq.failed # "fetch") => rsp' = rsp
         /\ Len(rsp'.handlerCalls) > Len(rsp.handlerCalls) =>
              (rsp.pc = "decrypting" /\ enq' = enq) ]_vars

\* fetch rejected with Error("Mock Error") while no job was being delivered,
\* and enqueue rejected with it.
C19_Witness ==
  /\ wiring = "service"
  /\ enq.failed = "fetch"
  /\ enq.error = MkError("Error", "Mock Error")
  /\ enq.payload = PFooBar
  /\ rsp = IdleRsp

\* The first stage of the delivery in hand that fails, in the order header
\* validation, body check, decryption, deserialization, schema validation.
FirstFailure ==
  IF rsp.headers.id.t # "string" \/ rsp.headers.start.t # "string" THEN "headers"
  ELSE IF rsp.body.t # "string" THEN "body"
  ELSE IF ~Decrypt(cfg, rsp.body.v).ok THEN "decrypt"
  ELSE IF ~SerializerParse(cfg.serializer, Decrypt(cfg, rsp.body.v).v).ok THEN "deserialize"
  ELSE IF ~SchemaParse(cfg.schema,
                       SerializerParse(cfg.serializer, Decrypt(cfg, rsp.body.v).v).v).ok
  THEN "schema"
  ELSE "none"

\* The stages run in order and the handler comes last and at most once.
StagesInOrder ==
  /\ Len(rsp.handlerCalls) <= 1
  /\ rsp.pc = "decrypting" =>
       (rsp.handlerCalls = <<>> /\ rsp.stage = "decrypt" /\ FirstFailure \notin {"headers", "body"})
  /\ (rsp.pc \notin {"idle", "decrypting"} /\ FirstFailure = "none") =>
       (Len(rsp.handlerCalls) = 1 /\ rsp.stage \in {"handler", "done"})
  /\ (rsp.pc \notin {"idle", "decrypting"} /\ FirstFailure # "none") =>
       (rsp.handlerCalls = <<>> /\ rsp.stage = FirstFailure /\ rsp.caught # NoError)

\* C20: within one respondTo call the stages run in the order header
\* validation, body check, decryption, deserialization, schema validation,
\* handler; the handler is invoked at most once and only after every earlier
\* stage succeeded, and a failure of an earlier stage yields status 500 with
\* the handler never invoked.
C20_StageOrder ==
  /\ StagesInOrder
  /\ (rsp.pc \notin {"idle", "decrypting"} /\ FirstFailure # "none") =>
       (RespondReturned /\ rsp.result.status = 500)

\* C20 holds unless the failing stage throws a Symbol: then the handler is
\* not invoked either, but respondTo rejects instead of answering 500.
C20_StageOrderUnlessSymbol ==
  /\ StagesInOrder
  /\ (rsp.pc \notin {"idle", "decrypting"} /\ FirstFailure # "none") =>
       IF rsp.caught.type = "symbol"
       THEN rsp.pc = "threw" /\ rsp.result = NoResult
       ELSE RespondReturned /\ rsp.result = [status |-> 500, body |-> JsStr(StringOf(rsp.caught))]

\* The schema threw a Symbol: the handler was not invoked and respondTo
\* rejected.
C20_Witness ==
  /\ cfg.schema = "throwsSymbol"
  /\ rsp.stage = "schema"
  /\ rsp.caught = ThrownSymbol("x")
  /\ rsp.handlerCalls = <<>>
  /\ rsp.pc = "threw"

\* The values of x-zeplo-start that are text without a decimal number.
NonNumericStarts == { "soon", "" }

\* C21: of x-zeplo-start only its being a string is checked: for every
\* string value, text without a number included, with a string x-zeplo-id
\* and a body that decodes, the handler is invoked (with a start that may be
\* an invalid date), and when it completes the result is status 200.
C21_AnyStartString ==
  (/\ rsp.pc \notin {"idle", "decrypting"}
   /\ rsp.headers.id.t = "string" /\ rsp.headers.start.t = "string"
   /\ FirstFailure = "none") =>
    /\ Len(rsp.handlerCalls) = 1
    /\ rsp.handlerCalls[1].jobId = rsp.headers.id.v
    /\ rsp.headers.start.v \in NonNumericStarts => rsp.handlerCalls[1].start = InvalidDate
    /\ rsp.stage = "done" =>
         (RespondReturned /\ rsp.result = [status |-> 200, body |-> IdObject(rsp.headers.id.v)])
    /\ (RespondReturned /\ rsp.result.status # 200) =>
         (rsp.stage = "handler" /\ rsp.caught # NoError)

\* A delivery whose x-zeplo-start is "soon" was handled with an invalid date
\* and answered with status 200.
C21_Witness ==
  /\ rsp.headers = [id |-> JsStr("foo"), start |-> JsStr("soon")]
  /\ rsp.handlerCalls = << HandlerCall(PFooBar, "foo", InvalidDate) >>
  /\ rsp.pc = "sent"
  /\ rsp.sent = [status |-> 200, text |-> "{\"id\":\"foo\"}"]

====
